---- MODULE Spec2Model ----
(***************************************************************************)
(* Weather dashboard frontend: the form validator (utils/validation.js),   *)
(* the backend client and the transformer (utils/backendApi.js,            *)
(* utils/weatherApi.js), the form (components/WeatherForm.jsx) and the     *)
(* dashboard's handleFormSubmit (components/WeatherDashboard.jsx) and the  *)
(* table widget (components/WeatherTable.jsx).                             *)
(*                                                                         *)
(* Representation.                                                         *)
(*  - A JavaScript value is a record tagged by its type in field t, so     *)
(*    that null, undefined, strings, numbers and objects stay distinct.    *)
(*  - A text typed into an input is a tuple of one-character strings.      *)
(*  - A JavaScript number is a fixed-point integer counting units of       *)
(*    10^-FracDigits (90.0001 is 900001 when FracDigits = 4).              *)
(*  - A Date is an instant counted in whole hours since the epoch (UTC);   *)
(*    the source counts milliseconds.  The local zone is UTC + tz hours.   *)
(*  - A calendar day is the number of whole days since the epoch.          *)
(***************************************************************************)
EXTENDS Integers, Sequences, FiniteSets, TLC

VARIABLES
    tz,          \* local time-zone offset of the client, hours east of UTC
    now,         \* the clock read by new Date(), hours since the epoch
    formData,    \* WeatherForm state: latitude, longitude, startDate, endDate
    errors,      \* WeatherForm state: errors.general
    loading,     \* WeatherDashboard state
    weatherData, \* WeatherDashboard state
    chartData,   \* WeatherDashboard state
    tableData,   \* WeatherDashboard state
    error,       \* WeatherDashboard state
    lastQuery,   \* WeatherDashboard state
    subs,        \* one record per form submission: where its handler stands
    net,         \* the requests handed to axios, in order, and how each settled
    call,        \* the last direct call of a pure function: fn, arg, ret
    table        \* WeatherTable state: currentPage, itemsPerPage

vars == <<tz, now, formData, errors, loading, weatherData, chartData,
          tableData, error, lastQuery, subs, net, call, table>>

uiVars == <<formData, errors, loading, weatherData, chartData, tableData,
            error, lastQuery, subs, net>>

-----------------------------------------------------------------------------
(* Bounds of the model *)

FracDigits == 4
MaxSubmissions == 2

-----------------------------------------------------------------------------
(* JavaScript values *)

Null == [t |-> "null"]
Undefined == [t |-> "undefined"]
NaN == [t |-> "NaN"]
Str(s) == [t |-> "string", s |-> s]
Num(n) == [t |-> "number", n |-> n]
Date(h) == [t |-> "date", valid |-> TRUE, h |-> h]
\* a Date object whose time value is NaN
InvalidDate == [t |-> "date", valid |-> FALSE, h |-> 0]

Scale == 10 ^ FracDigits
Deg(d) == d * Scale

isNaN(x) == x.t = "NaN"

\* !x for the values the form holds: null is falsy, a Date object is truthy
Falsy(x) == x.t \in {"null", "undefined"}

-----------------------------------------------------------------------------
(* parseFloat: the longest prefix of the text that is a decimal literal    *)
(* (sign, digits, a point, digits); NaN when there is none.  Exponents,    *)
(* leading blanks and "Infinity" are not among the modelled inputs.        *)

DigitChars == <<"0", "1", "2", "3", "4", "5", "6", "7", "8", "9">>
IsDigit(c) == \E i \in 1..10 : DigitChars[i] = c
DigitVal(c) == (CHOOSE i \in 1..10 : DigitChars[i] = c) - 1

\* number of consecutive digits of s from position i on
RECURSIVE DigitRun(_, _)
DigitRun(s, i) ==
    IF i <= Len(s) /\ IsDigit(s[i]) THEN 1 + DigitRun(s, i + 1) ELSE 0

\* value of the n digits of s that start at position i
RECURSIVE DigitsValue(_, _, _)
DigitsValue(s, i, n) ==
    IF n = 0 THEN 0
    ELSE DigitsValue(s, i, n - 1) * 10 + DigitVal(s[i + n - 1])

\* the n fraction digits of s from position i, in units of 10^-FracDigits
FractionValue(s, i, n) ==
    IF n <= FracDigits
    THEN DigitsValue(s, i, n) * (10 ^ (FracDigits - n))
    ELSE DigitsValue(s, i, FracDigits)

parseFloat(s) ==
    LET signLen == IF Len(s) > 0 /\ s[1] \in {"+", "-"} THEN 1 ELSE 0
        sign == IF signLen = 1 /\ s[1] = "-" THEN -1 ELSE 1
        nInt == DigitRun(s, signLen + 1)
        dotAt == signLen + nInt + 1
        hasDot == dotAt <= Len(s) /\ s[dotAt] = "."
        nFrac == IF hasDot THEN DigitRun(s, dotAt + 1) ELSE 0
    IN  IF nInt = 0 /\ nFrac = 0
        THEN NaN
        ELSE Num(sign * (DigitsValue(s, signLen + 1, nInt) * Scale
                         + FractionValue(s, dotAt + 1, nFrac)))

-----------------------------------------------------------------------------
(* utils/validation.js *)

MsgLatNumber == "Latitude must be a valid number"
MsgLatRange == "Latitude must be between -90 and 90 degrees"
MsgLngNumber == "Longitude must be a valid number"
MsgLngRange == "Longitude must be between -180 and 180 degrees"
MsgDatesRequired == "Both start and end dates are required"
MsgInverted == "Start date must be before or equal to end date"
MsgFuture == "End date cannot be in the future"
MsgTooLarge == "Date range cannot exceed 2 years"

Invalid(msg) == [isValid |-> FALSE, error |-> Str(msg)]
Valid == [isValid |-> TRUE, error |-> Null]

validateLatitude_openLow(latitude) ==
    LET lat == parseFloat(latitude)
    IN  IF isNaN(lat) THEN Invalid(MsgLatNumber)
        ELSE IF lat.n <= Deg(-90) \/ lat.n > Deg(90) THEN Invalid(MsgLatRange)
        ELSE Valid

validateLatitude(latitude) ==
    LET lat == parseFloat(latitude)
    IN  IF isNaN(lat) THEN Invalid(MsgLatNumber)
        ELSE IF lat.n < Deg(-90) \/ lat.n > Deg(90) THEN Invalid(MsgLatRange)
        ELSE Valid

validateLongitude_latRange(longitude) ==
    LET lng == parseFloat(longitude)
    IN  IF isNaN(lng) THEN Invalid(MsgLngNumber)
        ELSE IF lng.n < Deg(-90) \/ lng.n > Deg(90) THEN Invalid(MsgLngRange)
        ELSE Valid

validateLongitude(longitude) ==
    LET lng == parseFloat(longitude)
    IN  IF isNaN(lng) THEN Invalid(MsgLngNumber)
        ELSE IF lng.n < Deg(-180) \/ lng.n > Deg(180) THEN Invalid(MsgLngRange)
        ELSE Valid

HoursPerDay == 24
MaxRangeDays == 730

\* Math.ceil(a / b) for a >= 0, b > 0
Ceil(a, b) == (a + b - 1) \div b
Abs(a) == IF a < 0 THEN 0 - a ELSE a

\* Local time.  tz is the zone's standard offset from UTC in hours.  A zone
\* of DstZones keeps summer time, one hour ahead, between the instants of
\* SummerPeriods (hours since the epoch, UTC): the periods of America/New_York
\* in 2021, 2022 and 2023, from 07:00 UTC on 14, 13 and 12 March to 06:00 UTC
\* on 7, 6 and 5 November.
DstZones == {-5}
SummerPeriods ==
    {<<18700 * HoursPerDay + 7, 18938 * HoursPerDay + 6>>,
     <<19064 * HoursPerDay + 7, 19302 * HoursPerDay + 6>>,
     <<19428 * HoursPerDay + 7, 19666 * HoursPerDay + 6>>}

\* the offset of local time from UTC at the instant h
OffsetAt(h) ==
    IF tz \in DstZones /\ \E p \in SummerPeriods : p[1] <= h /\ h < p[2]
    THEN tz + 1
    ELSE tz

\* the instant of 00:00 local time on a calendar day
MidnightOf(day) ==
    LET s == day * HoursPerDay - tz
    IN  IF OffsetAt(s - 1) = tz + 1 THEN s - 1 ELSE s

\* new Date() followed by setHours(0, 0, 0, 0): local midnight of the current day
TodayMidnight == MidnightOf((now + OffsetAt(now)) \div HoursPerDay)

\* a > b, a - b on Date objects: the time values are compared, and every
\* comparison with NaN is false
DateGt(a, b) == a.valid /\ b.valid /\ a.h > b.h
DateDiff(a, b) == IF a.valid /\ b.valid THEN Num(a.h - b.h) ELSE NaN

\* a bug: >= where the code has >, so that a single day counts as inverted
validateDateRange_rejectsSameDay(startDate, endDate) ==
    IF Falsy(startDate) \/ Falsy(endDate) THEN Invalid(MsgDatesRequired)
    ELSE IF DateGt(startDate, endDate) \/ (startDate.valid /\ startDate = endDate)
    THEN Invalid(MsgInverted)
    ELSE IF DateGt(endDate, Date(TodayMidnight)) THEN Invalid(MsgFuture)
    ELSE LET diffTime == DateDiff(endDate, startDate)
             diffDays == IF isNaN(diffTime) THEN NaN
                         ELSE Num(Ceil(Abs(diffTime.n), HoursPerDay))
         IN  IF ~isNaN(diffDays) /\ diffDays.n > MaxRangeDays
             THEN Invalid(MsgTooLarge)
             ELSE Valid

\* a bug: >= where the code has >, so that the current day counts as future
validateDateRange_todayIsFuture(startDate, endDate) ==
    IF Falsy(startDate) \/ Falsy(endDate) THEN Invalid(MsgDatesRequired)
    ELSE IF DateGt(startDate, endDate) THEN Invalid(MsgInverted)
    ELSE IF DateGt(endDate, Date(TodayMidnight - 1)) THEN Invalid(MsgFuture)
    ELSE LET diffTime == DateDiff(endDate, startDate)
             diffDays == IF isNaN(diffTime) THEN NaN
                         ELSE Num(Ceil(Abs(diffTime.n), HoursPerDay))
         IN  IF ~isNaN(diffDays) /\ diffDays.n > MaxRangeDays
             THEN Invalid(MsgTooLarge)
             ELSE Valid

\* a bug: only the start date is looked at by the first check
validateDateRange_startOnly(startDate, endDate) ==
    IF Falsy(startDate) THEN Invalid(MsgDatesRequired)
    ELSE IF Falsy(endDate) THEN Valid
    ELSE IF DateGt(startDate, endDate) THEN Invalid(MsgInverted)
    ELSE IF DateGt(endDate, Date(TodayMidnight)) THEN Invalid(MsgFuture)
    ELSE LET diffTime == DateDiff(endDate, startDate)
             diffDays == IF isNaN(diffTime) THEN NaN
                         ELSE Num(Ceil(Abs(diffTime.n), HoursPerDay))
         IN  IF ~isNaN(diffDays) /\ diffDays.n > MaxRangeDays
             THEN Invalid(MsgTooLarge)
             ELSE Valid

validateDateRange(startDate, endDate) ==
    IF Falsy(startDate) \/ Falsy(endDate) THEN Invalid(MsgDatesRequired)
    ELSE IF DateGt(startDate, endDate) THEN Invalid(MsgInverted)
    ELSE IF DateGt(endDate, Date(TodayMidnight)) THEN Invalid(MsgFuture)
    ELSE LET diffTime == DateDiff(endDate, startDate)
             diffDays == IF isNaN(diffTime) THEN NaN
                         ELSE Num(Ceil(Abs(diffTime.n), HoursPerDay))
         IN  IF ~isNaN(diffDays) /\ diffDays.n > MaxRangeDays
             THEN Invalid(MsgTooLarge)
             ELSE Valid

validateFormInputs_datesFirst(fd) ==
    LET latValidation == validateLatitude(fd.latitude)
        lngValidation == validateLongitude(fd.longitude)
        dateValidation == validateDateRange(fd.startDate, fd.endDate)
    IN  IF ~dateValidation.isValid THEN dateValidation
        ELSE IF ~latValidation.isValid THEN latValidation
        ELSE IF ~lngValidation.isValid THEN lngValidation
        ELSE Valid

validateFormInputs(fd) ==
    LET latValidation == validateLatitude(fd.latitude)
        lngValidation == validateLongitude(fd.longitude)
        dateValidation == validateDateRange(fd.startDate, fd.endDate)
    IN  IF ~latValidation.isValid THEN latValidation
        ELSE IF ~lngValidation.isValid THEN lngValidation
        ELSE IF ~dateValidation.isValid THEN dateValidation
        ELSE Valid

-----------------------------------------------------------------------------
(* axios: how a request settles.  A request either resolves with a 2xx     *)
(* response or rejects with an error that carries a response (the server   *)
(* answered with an error status), only a request (nothing came back), or  *)
(* neither (the request could not be set up).                              *)

Obj(fields) == [t |-> "object", f |-> fields]
Arr(a) == [t |-> "array", a |-> a]

Resolved(data) == [settled |-> "resolved", response |-> [status |-> 200, data |-> data]]
RejectedResponse(status, statusText, data) ==
    [settled |-> "rejected",
     error |-> [response |-> [t |-> "object", status |-> status,
                              statusText |-> statusText, data |-> data],
                request |-> Obj("XMLHttpRequest"),
                message |-> Str("Request failed with status code " \o ToString(status))]]
RejectedNoResponse ==
    [settled |-> "rejected",
     error |-> [response |-> Undefined, request |-> Obj("XMLHttpRequest"),
                message |-> Str("Network Error")]]
RejectedSetup(message) ==
    [settled |-> "rejected",
     error |-> [response |-> Undefined, request |-> Undefined, message |-> message]]

\* JavaScript truthiness of the values that reach a || or an if
Truthy(x) ==
    CASE x.t \in {"null", "undefined", "NaN"} -> FALSE
      [] x.t = "string" -> x.s # ""
      [] x.t = "number" -> x.n # 0
      [] OTHER -> TRUE

\* a || b
Or(a, b) == IF Truthy(a) THEN a ELSE b

\* a ?? b
Nullish(a, b) == IF a.t \in {"null", "undefined"} THEN b ELSE a

\* error.response.data?.error
DataError(data) ==
    IF data.t \in {"null", "undefined"} THEN Undefined
    ELSE IF data.t = "errorBody" THEN data.error
    ELSE Undefined

ErrorBody(msg) == [t |-> "errorBody", error |-> msg]

Failure(errorMessage) == [success |-> FALSE, data |-> Null, error |-> errorMessage]
Success(data) == [success |-> TRUE, data |-> data, error |-> Null]

-----------------------------------------------------------------------------
(* utils/backendApi.js: the four calls, each with its own catch block *)

\* a bug: the message of the error is passed on as it is
storeWeatherData_rawMessage(settle) ==
    IF settle.settled = "resolved" THEN Success(settle.response.data)
    ELSE LET err == settle.error
         IN  IF Truthy(err.response)
             THEN Failure(Str("API Error: " \o ToString(err.response.status) \o " - "
                              \o Or(DataError(err.response.data),
                                    Str(err.response.statusText)).s))
             ELSE IF Truthy(err.request)
             THEN Failure(Str("Network error: Unable to reach backend service"))
             ELSE Failure(err.message)

\* a bug: a failed result still carries the body of the response
storeWeatherData_keepsData(settle) ==
    IF settle.settled = "resolved" THEN Success(settle.response.data)
    ELSE LET err == settle.error
         IN  IF Truthy(err.response)
             THEN [success |-> FALSE, data |-> err.response.data,
                   error |-> Str("API Error: " \o ToString(err.response.status) \o " - "
                                 \o Or(DataError(err.response.data),
                                       Str(err.response.statusText)).s)]
             ELSE IF Truthy(err.request)
             THEN Failure(Str("Network error: Unable to reach backend service"))
             ELSE Failure(Or(err.message, Str("Unknown error occurred")))

storeWeatherData(settle) ==
    IF settle.settled = "resolved" THEN Success(settle.response.data)
    ELSE LET err == settle.error
         IN  IF Truthy(err.response)
             THEN Failure(Str("API Error: " \o ToString(err.response.status) \o " - "
                              \o Or(DataError(err.response.data),
                                    Str(err.response.statusText)).s))
             ELSE IF Truthy(err.request)
             THEN Failure(Str("Network error: Unable to reach backend service"))
             ELSE Failure(Or(err.message, Str("Unknown error occurred")))

listWeatherFiles(settle) ==
    IF settle.settled = "resolved" THEN Success(settle.response.data)
    ELSE LET err == settle.error
         IN  IF Truthy(err.response)
             THEN Failure(Str("API Error: " \o ToString(err.response.status) \o " - "
                              \o Or(DataError(err.response.data),
                                    Str(err.response.statusText)).s))
             ELSE IF Truthy(err.request)
             THEN Failure(Str("Network error: Unable to reach backend service"))
             ELSE Failure(Or(err.message, Str("Unknown error occurred")))

\* a bug: the server's message is left out of the report
getWeatherFileContent_statusTextOnly(settle) ==
    IF settle.settled = "resolved" THEN Success(settle.response.data)
    ELSE LET err == settle.error
         IN  IF Truthy(err.response)
             THEN Failure(Str("API Error: " \o ToString(err.response.status) \o " - "
                              \o err.response.statusText))
             ELSE IF Truthy(err.request)
             THEN Failure(Str("Network error: Unable to reach backend service"))
             ELSE Failure(Or(err.message, Str("Unknown error occurred")))

getWeatherFileContent(settle) ==
    IF settle.settled = "resolved" THEN Success(settle.response.data)
    ELSE LET err == settle.error
         IN  IF Truthy(err.response)
             THEN Failure(Str("API Error: " \o ToString(err.response.status) \o " - "
                              \o Or(DataError(err.response.data),
                                    Str(err.response.statusText)).s))
             ELSE IF Truthy(err.request)
             THEN Failure(Str("Network error: Unable to reach backend service"))
             ELSE Failure(Or(err.message, Str("Unknown error occurred")))

checkHealth(settle) ==
    IF settle.settled = "resolved" THEN Success(settle.response.data)
    ELSE Failure(Str("Backend service is unavailable"))

-----------------------------------------------------------------------------
(* utils/weatherApi.js: fetchWeatherData, the direct call of the provider *)

\* response.data && response.data.daily
HasDaily(data) ==
    /\ Truthy(data)
    /\ data.t = "payload"
    /\ Truthy(data.daily)

fetchWeatherData(settle) ==
    LET thrown == IF settle.settled = "rejected" THEN settle.error
                  ELSE [response |-> Undefined, request |-> Undefined,
                        message |-> Str("Invalid response format from weather API")]
    IN  IF settle.settled = "resolved" /\ HasDaily(settle.response.data)
        THEN Success(settle.response.data)
        ELSE IF Truthy(thrown.response)
        THEN Failure(Str("API Error: " \o ToString(thrown.response.status) \o " - "
                         \o thrown.response.statusText))
        ELSE IF Truthy(thrown.request)
        THEN Failure(Str("Network error: Unable to reach weather service"))
        ELSE Failure(Or(thrown.message, Str("Unknown error occurred")))

-----------------------------------------------------------------------------
(* utils/backendApi.js: the transformer.  A payload is                     *)
(* [t |-> "payload", daily |-> d]; d is Undefined or a record of the       *)
(* seven fields of daily, each Undefined or an array.                      *)

Payload(daily) == [t |-> "payload", daily |-> daily]
Daily(time, tmax, tmin, tmean, amax, amin, amean) ==
    [t |-> "daily", time |-> time,
     temperature_2m_max |-> tmax, temperature_2m_min |-> tmin,
     temperature_2m_mean |-> tmean, apparent_temperature_max |-> amax,
     apparent_temperature_min |-> amin, apparent_temperature_mean |-> amean]

\* !weatherData || !weatherData.daily
NoDaily(wd) == ~Truthy(wd) \/ wd.t # "payload" \/ ~Truthy(wd.daily)

Dataset(label, data, borderColor, backgroundColor) ==
    [label |-> label, data |-> data, borderColor |-> borderColor,
     backgroundColor |-> backgroundColor, tension |-> "0.4"]

\* a bug: a series whose field is absent is left out
transformDataForChart_omitsAbsent(wd) ==
    IF NoDaily(wd) THEN Null
    ELSE LET daily == wd.daily
             dates == Or(daily.time, Arr(<<>>))
             series(label, field, borderColor, backgroundColor) ==
                 IF Truthy(field)
                 THEN <<Dataset(label, field, borderColor, backgroundColor)>>
                 ELSE <<>>
         IN  [t |-> "chart",
              labels |-> dates,
              datasets |->
                series("Max Temperature (°C)", daily.temperature_2m_max,
                       "rgb(239, 68, 68)", "rgba(239, 68, 68, 0.1)")
                \o series("Min Temperature (°C)", daily.temperature_2m_min,
                          "rgb(59, 130, 246)", "rgba(59, 130, 246, 0.1)")
                \o series("Mean Temperature (°C)", daily.temperature_2m_mean,
                          "rgb(16, 185, 129)", "rgba(16, 185, 129, 0.1)")]

\* a bug: without data an empty chart is returned instead of null
transformDataForChart_emptyChart(wd) ==
    LET daily == IF NoDaily(wd) THEN Daily(Undefined, Undefined, Undefined, Undefined,
                                           Undefined, Undefined, Undefined)
                 ELSE wd.daily
        dates == Or(daily.time, Arr(<<>>))
    IN  [t |-> "chart",
         labels |-> dates,
         datasets |-> <<
           Dataset("Max Temperature (°C)", Or(daily.temperature_2m_max, Arr(<<>>)),
                   "rgb(239, 68, 68)", "rgba(239, 68, 68, 0.1)"),
           Dataset("Min Temperature (°C)", Or(daily.temperature_2m_min, Arr(<<>>)),
                   "rgb(59, 130, 246)", "rgba(59, 130, 246, 0.1)"),
           Dataset("Mean Temperature (°C)", Or(daily.temperature_2m_mean, Arr(<<>>)),
                   "rgb(16, 185, 129)", "rgba(16, 185, 129, 0.1)") >>]

transformDataForChart(wd) ==
    IF NoDaily(wd) THEN Null
    ELSE LET daily == wd.daily
             dates == Or(daily.time, Arr(<<>>))
         IN  [t |-> "chart",
              labels |-> dates,
              datasets |-> <<
                Dataset("Max Temperature (°C)", Or(daily.temperature_2m_max, Arr(<<>>)),
                        "rgb(239, 68, 68)", "rgba(239, 68, 68, 0.1)"),
                Dataset("Min Temperature (°C)", Or(daily.temperature_2m_min, Arr(<<>>)),
                        "rgb(59, 130, 246)", "rgba(59, 130, 246, 0.1)"),
                Dataset("Mean Temperature (°C)", Or(daily.temperature_2m_mean, Arr(<<>>)),
                        "rgb(16, 185, 129)", "rgba(16, 185, 129, 0.1)") >>]

\* field?.[index], index counted from 0
At(field, index) ==
    IF field.t \in {"null", "undefined"} THEN Undefined
    ELSE IF field.t = "array" /\ index < Len(field.a) THEN field.a[index + 1]
    ELSE Undefined

NA == Str("N/A")

\* a bug: the values are rounded to whole degrees
TableRow_rounded(daily, date, index) ==
    LET value(field) ==
          LET x == Nullish(At(field, index), NA)
          IN  IF x.t = "number" THEN Num(((x.n + Scale \div 2) \div Scale) * Scale)
              ELSE x
    IN  [id |-> index + 1,
         date |-> date,
         tempMax |-> value(daily.temperature_2m_max),
         tempMin |-> value(daily.temperature_2m_min),
         tempMean |-> value(daily.temperature_2m_mean),
         apparentTempMax |-> value(daily.apparent_temperature_max),
         apparentTempMin |-> value(daily.apparent_temperature_min),
         apparentTempMean |-> value(daily.apparent_temperature_mean)]

\* a bug: a row with one missing value has no value at all
TableRow_allOrNothing(daily, date, index) ==
    LET fields == <<daily.temperature_2m_max, daily.temperature_2m_min,
                    daily.temperature_2m_mean, daily.apparent_temperature_max,
                    daily.apparent_temperature_min, daily.apparent_temperature_mean>>
        complete == \A j \in 1..6 : ~(At(fields[j], index).t \in {"null", "undefined"})
        value(field) == IF complete THEN At(field, index) ELSE NA
    IN  [id |-> index + 1,
         date |-> date,
         tempMax |-> value(daily.temperature_2m_max),
         tempMin |-> value(daily.temperature_2m_min),
         tempMean |-> value(daily.temperature_2m_mean),
         apparentTempMax |-> value(daily.apparent_temperature_max),
         apparentTempMin |-> value(daily.apparent_temperature_min),
         apparentTempMean |-> value(daily.apparent_temperature_mean)]

\* a bug: || in place of ??, every falsy element becomes the sentinel
TableRow_falsyOr(daily, date, index) ==
    [id |-> index + 1,
     date |-> date,
     tempMax |-> Or(At(daily.temperature_2m_max, index), NA),
     tempMin |-> Or(At(daily.temperature_2m_min, index), NA),
     tempMean |-> Or(At(daily.temperature_2m_mean, index), NA),
     apparentTempMax |-> Or(At(daily.apparent_temperature_max, index), NA),
     apparentTempMin |-> Or(At(daily.apparent_temperature_min, index), NA),
     apparentTempMean |-> Or(At(daily.apparent_temperature_mean, index), NA)]

TableRow(daily, date, index) ==
    [id |-> index + 1,
     date |-> date,
     tempMax |-> Nullish(At(daily.temperature_2m_max, index), NA),
     tempMin |-> Nullish(At(daily.temperature_2m_min, index), NA),
     tempMean |-> Nullish(At(daily.temperature_2m_mean, index), NA),
     apparentTempMax |-> Nullish(At(daily.apparent_temperature_max, index), NA),
     apparentTempMin |-> Nullish(At(daily.apparent_temperature_min, index), NA),
     apparentTempMean |-> Nullish(At(daily.apparent_temperature_mean, index), NA)]

transformDataForTable(wd) ==
    IF NoDaily(wd) THEN <<>>
    ELSE LET daily == wd.daily
             dates == Or(daily.time, Arr(<<>>))
         IN  [i \in 1..Len(dates.a) |-> TableRow(daily, dates.a[i], i - 1)]

-----------------------------------------------------------------------------
(* utils/weatherApi.js: its own copy of the transformer *)

\* a bug: labels without the fallback to an empty array
weatherApi_transformDataForChart_noFallback(wd) ==
    IF ~Truthy(wd) \/ wd.t # "payload" \/ ~Truthy(wd.daily) THEN Null
    ELSE LET daily == wd.daily
         IN  [t |-> "chart",
              labels |-> daily.time,
              datasets |-> <<
                Dataset("Max Temperature (°C)", Or(daily.temperature_2m_max, Arr(<<>>)),
                        "rgb(239, 68, 68)", "rgba(239, 68, 68, 0.1)"),
                Dataset("Min Temperature (°C)", Or(daily.temperature_2m_min, Arr(<<>>)),
                        "rgb(59, 130, 246)", "rgba(59, 130, 246, 0.1)"),
                Dataset("Mean Temperature (°C)", Or(daily.temperature_2m_mean, Arr(<<>>)),
                        "rgb(16, 185, 129)", "rgba(16, 185, 129, 0.1)") >>]

weatherApi_transformDataForChart(wd) ==
    IF ~Truthy(wd) \/ wd.t # "payload" \/ ~Truthy(wd.daily) THEN Null
    ELSE LET daily == wd.daily
             dates == Or(daily.time, Arr(<<>>))
         IN  [t |-> "chart",
              labels |-> dates,
              datasets |-> <<
                Dataset("Max Temperature (°C)", Or(daily.temperature_2m_max, Arr(<<>>)),
                        "rgb(239, 68, 68)", "rgba(239, 68, 68, 0.1)"),
                Dataset("Min Temperature (°C)", Or(daily.temperature_2m_min, Arr(<<>>)),
                        "rgb(59, 130, 246)", "rgba(59, 130, 246, 0.1)"),
                Dataset("Mean Temperature (°C)", Or(daily.temperature_2m_mean, Arr(<<>>)),
                        "rgb(16, 185, 129)", "rgba(16, 185, 129, 0.1)") >>]

weatherApi_transformDataForTable(wd) ==
    IF ~Truthy(wd) \/ wd.t # "payload" \/ ~Truthy(wd.daily) THEN <<>>
    ELSE LET daily == wd.daily
             dates == Or(daily.time, Arr(<<>>))
         IN  [i \in 1..Len(dates.a) |->
                [id |-> (i - 1) + 1,
                 date |-> dates.a[i],
                 tempMax |-> Nullish(At(daily.temperature_2m_max, i - 1), NA),
                 tempMin |-> Nullish(At(daily.temperature_2m_min, i - 1), NA),
                 tempMean |-> Nullish(At(daily.temperature_2m_mean, i - 1), NA),
                 apparentTempMax |->
                     Nullish(At(daily.apparent_temperature_max, i - 1), NA),
                 apparentTempMin |->
                     Nullish(At(daily.apparent_temperature_min, i - 1), NA),
                 apparentTempMean |->
                     Nullish(At(daily.apparent_temperature_mean, i - 1), NA)]]

-----------------------------------------------------------------------------
(* Number.prototype.toFixed on the fixed-point numbers *)

RECURSIVE NatChars(_)
NatChars(n) ==
    IF n < 10 THEN <<DigitChars[n + 1]>>
    ELSE NatChars(n \div 10) \o <<DigitChars[(n % 10) + 1]>>

\* the k low digits of n, with leading zeros
RECURSIVE FixedChars(_, _)
FixedChars(n, k) ==
    IF k = 0 THEN <<>>
    ELSE FixedChars(n \div 10, k - 1) \o <<DigitChars[(n % 10) + 1]>>

RECURSIVE Join(_)
Join(cs) == IF cs = <<>> THEN "" ELSE cs[1] \o Join(Tail(cs))

\* n.toFixed(d): d fraction digits, rounded to nearest
toFixed(n, d) ==
    LET a == Abs(n)
        q == IF d >= FracDigits THEN a * (10 ^ (d - FracDigits))
             ELSE (a + ((10 ^ (FracDigits - d)) \div 2)) \div (10 ^ (FracDigits - d))
    IN  Join((IF n < 0 THEN <<"-">> ELSE <<>>)
             \o NatChars(q \div (10 ^ d))
             \o (IF d = 0 THEN <<>> ELSE <<".">> \o FixedChars(q % (10 ^ d), d)))

-----------------------------------------------------------------------------
(* Dates.  toISOString().split('T')[0] is the calendar day of the instant  *)
(* in UTC; the day is written "D<n>", n the day number since the epoch.    *)

LocalMidnight(day) == Date(MidnightOf(day))

\* date.toISOString().split('T')[0]
toISODateString(date) == Str("D" \o ToString(date.h \div HoursPerDay))

\* date.toISOString() throws a RangeError on an invalid Date
toISOStringThrows(date) == ~date.valid

-----------------------------------------------------------------------------
(* The backend service and the transport, as the client sees them.  The    *)
(* 2xx bodies and the error bodies are the backend's documented ones.      *)

\* the body of a successful store: the file name is derived from the request
\* and from the time of storing (here the position k of the request in net)
StoreBody(req, k) ==
    LET f == "weather_data_" \o req.start_date.s \o "_to_" \o req.end_date.s
             \o "_" \o ToString(k) \o ".json"
    IN  [t |-> "storeBody", message |-> Str("Weather data stored successfully"),
         filename |-> Str(f), location |-> Str("gs://weather-data-bucket/" \o f)]

\* temperatures, in tenths of a degree
Temp(x10) == Num((x10 * Scale) \div 10)

TwoDays == Arr(<<Str("2023-01-01"), Str("2023-01-02")>>)

\* a response of n days with all six series complete
MaxDays == 3
DayChars(i) == (IF i < 10 THEN "0" ELSE "") \o ToString(i)
Dates(n) == Arr([i \in 1..n |-> Str("2023-01-" \o DayChars(i))])
Series(n, first) == Arr([i \in 1..n |-> Temp(first + 7 * i)])
PayloadOfDays(n) ==
    Payload(Daily(Dates(n), Series(n, 45), Series(n, -28), Series(n, -7),
                  Series(n, 31), Series(n, -49), Series(n, -14)))
\* the answer to a query for January 2023
PayloadMonth == PayloadOfDays(31)

PayloadFull ==
    Payload(Daily(TwoDays,
                  Arr(<<Temp(52), Temp(71)>>), Arr(<<Temp(-21), Temp(3)>>),
                  Arr(<<Temp(15), Temp(37)>>), Arr(<<Temp(38), Temp(59)>>),
                  Arr(<<Temp(-42), Temp(-18)>>), Arr(<<Temp(-2), Temp(0)>>)))

PayloadShort ==
    Payload(Daily(TwoDays, Arr(<<Temp(52)>>), Undefined, Arr(<<Null, Temp(37)>>),
                  Undefined, Arr(<<>>), Undefined))

PayloadNoDaily == Payload(Undefined)

ServerError500 ==
    RejectedResponse(500, "Internal Server Error",
                     ErrorBody(Str("Failed to fetch weather data")))
ServerError404 ==
    RejectedResponse(404, "Not Found", ErrorBody(Str("File not found")))
\* an error status whose body carries no error field (a gateway's page)
ServerError502 == RejectedResponse(502, "", Str("<html>Bad Gateway</html>"))

\* how the store request net[k] may settle, and how a content request may
StoreSettlements(k) ==
    {Resolved(StoreBody(net[k].req, k)), ServerError500, ServerError502,
     RejectedNoResponse, RejectedSetup(Str(""))}

ContentSettlements ==
    {Resolved(PayloadFull), Resolved(PayloadShort), Resolved(PayloadNoDaily),
     Resolved(PayloadMonth), ServerError404, RejectedNoResponse}

Pending == [settled |-> "pending"]

-----------------------------------------------------------------------------
(* components/WeatherForm.jsx *)

NoErrors ==
    [general |-> Undefined, latitude |-> Undefined, longitude |-> Undefined,
     startDate |-> Undefined, endDate |-> Undefined]

\* the local calendar day of the clock
Today == (now + OffsetAt(now)) \div HoursPerDay

LatitudeTexts == {<<"2", "0", "0">>, <<"9", "0">>}
LongitudeTexts == {<<"1", "8", "1">>, <<"-", "1", "8", "0">>}
StartDates == {InvalidDate, LocalMidnight(Today - 1)}
EndDates == {LocalMidnight(Today), LocalMidnight(Today + 1)}

FieldValues(field) ==
    CASE field = "latitude" -> LatitudeTexts
      [] field = "longitude" -> LongitudeTexts
      [] field = "startDate" -> StartDates
      [] field = "endDate" -> EndDates

handleInputChange(field, value) ==
    /\ formData' = [formData EXCEPT ![field] = value]
    /\ errors' = IF Truthy(errors[field]) THEN [errors EXCEPT ![field] = Null]
                 ELSE errors
    /\ UNCHANGED <<tz, now, loading, weatherData, chartData, tableData, error,
                   lastQuery, subs, net, call, table>>

\* the submit button: disabled={loading}
SubmitEnabled == ~loading

\* WeatherTable keeps currentPage and itemsPerPage while it is mounted and
\* starts from useState(1) and useState(10) each time it is mounted.  left
\* is the page it showed when it was last unmounted, 0 if it never was.
InitialItemsPerPage == 10
Unmounted(left) ==
    [mounted |-> FALSE, currentPage |-> 1, itemsPerPage |-> InitialItemsPerPage,
     left |-> left]

\* a bug: the table is rendered while a submission is loading as well
Render_whileLoading ==
    table' = IF Truthy(chartData')
             THEN [table EXCEPT !.mounted = TRUE]
             ELSE Unmounted(IF table.mounted THEN table.currentPage ELSE table.left)

\* the dashboard renders after a state change: WeatherTable is part of the
\* output exactly when chartData && !loading
Render ==
    table' = IF Truthy(chartData') /\ ~loading'
             THEN [table EXCEPT !.mounted = TRUE]
             ELSE Unmounted(IF table.mounted THEN table.currentPage ELSE table.left)

-----------------------------------------------------------------------------
(* components/WeatherDashboard.jsx: handleFormSubmit.  subs[i] is the i-th *)
(* submission of the form; net is the log of the requests handed to axios, *)
(* each with the submission that issued it and how it settled.             *)

MsgUnexpected == "An unexpected error occurred while fetching weather data"

Sub(pc, outcome, validation, locals, message, reported) ==
    [pc |-> pc, outcome |-> outcome, validation |-> validation,
     locals |-> locals, message |-> message, reported |-> reported]

NoLocals == [t |-> "none"]

\* since is the number of requests that had settled when this one was
\* issued; at is the position of the request in the order in which the
\* requests settled, 0 while it is pending
Request(i, op, req) ==
    [sub |-> i, op |-> op, req |-> req, settle |-> Pending, at |-> 0,
     since |-> Cardinality({j \in DOMAIN net : net[j].settle # Pending})]

\* a bug: setError(null) is missing at the start
handleFormSubmit_keepsError(fd, validation) ==
    LET i == Len(subs) + 1
    IN  IF toISOStringThrows(fd.startDate) \/ toISOStringThrows(fd.endDate)
        THEN /\ loading' = FALSE
             /\ error' = Str(MsgUnexpected)
             /\ subs' = Append(subs, Sub("done", "exception", validation, NoLocals,
                                         Str(MsgUnexpected), 1))
             /\ UNCHANGED <<weatherData, chartData, tableData, lastQuery, net>>
        ELSE LET startDateStr == toISODateString(fd.startDate)
                 endDateStr == toISODateString(fd.endDate)
                 locals == [t |-> "locals", latitude |-> fd.latitude,
                            longitude |-> fd.longitude,
                            startDate |-> fd.startDate, endDate |-> fd.endDate,
                            startDateStr |-> startDateStr,
                            endDateStr |-> endDateStr, filename |-> Undefined]
             IN  /\ loading' = TRUE
                 /\ subs' = Append(subs, Sub("store", "pending", validation, locals,
                                             Null, 0))
                 /\ net' = Append(net, Request(i, "store",
                        [url |-> "/weather/store-weather-data",
                         latitude |-> fd.latitude, longitude |-> fd.longitude,
                         start_date |-> startDateStr, end_date |-> endDateStr]))
                 /\ UNCHANGED <<weatherData, chartData, tableData, lastQuery, error>>

\* lines 16-28: up to the first await; fd is the object WeatherForm passes
handleFormSubmit(fd, validation) ==
    LET i == Len(subs) + 1
    IN  IF toISOStringThrows(fd.startDate) \/ toISOStringThrows(fd.endDate)
        THEN /\ loading' = FALSE
             /\ error' = Str(MsgUnexpected)
             /\ subs' = Append(subs, Sub("done", "exception", validation, NoLocals,
                                         Str(MsgUnexpected), 1))
             /\ UNCHANGED <<weatherData, chartData, tableData, lastQuery, net>>
        ELSE LET startDateStr == toISODateString(fd.startDate)
                 endDateStr == toISODateString(fd.endDate)
                 locals == [t |-> "locals", latitude |-> fd.latitude,
                            longitude |-> fd.longitude,
                            startDate |-> fd.startDate, endDate |-> fd.endDate,
                            startDateStr |-> startDateStr,
                            endDateStr |-> endDateStr, filename |-> Undefined]
             IN  /\ loading' = TRUE
                 /\ error' = Null
                 /\ subs' = Append(subs, Sub("store", "pending", validation, locals,
                                             Null, 0))
                 /\ net' = Append(net, Request(i, "store",
                        [url |-> "/weather/store-weather-data",
                         latitude |-> fd.latitude, longitude |-> fd.longitude,
                         start_date |-> startDateStr, end_date |-> endDateStr]))
                 /\ UNCHANGED <<weatherData, chartData, tableData, lastQuery>>

\* WeatherForm.handleSubmit without its early return
handleSubmit_noReturn ==
    /\ SubmitEnabled
    /\ Len(subs) < MaxSubmissions
    /\ LET validation == validateFormInputs(formData)
       IN  /\ errors' = IF ~validation.isValid
                        THEN [NoErrors EXCEPT !.general = validation.error]
                        ELSE NoErrors
           /\ handleFormSubmit(
                 [latitude |-> parseFloat(formData.latitude),
                  longitude |-> parseFloat(formData.longitude),
                  startDate |-> IF Falsy(formData.startDate) THEN InvalidDate
                                ELSE formData.startDate,
                  endDate |-> IF Falsy(formData.endDate) THEN InvalidDate
                              ELSE formData.endDate],
                 validation)
    /\ UNCHANGED <<tz, now, formData, call>>
    /\ Render

handleSubmit ==
    /\ SubmitEnabled
    /\ Len(subs) < MaxSubmissions
    /\ LET validation == validateFormInputs(formData)
       IN  IF ~validation.isValid
           THEN /\ errors' = [NoErrors EXCEPT !.general = validation.error]
                /\ subs' = Append(subs, Sub("done", "invalid", validation, NoLocals,
                                            validation.error, 1))
                /\ UNCHANGED <<loading, weatherData, chartData, tableData, error,
                               lastQuery, net>>
           ELSE /\ errors' = NoErrors
                /\ handleFormSubmit(
                      [latitude |-> parseFloat(formData.latitude),
                       longitude |-> parseFloat(formData.longitude),
                       startDate |-> formData.startDate,
                       endDate |-> formData.endDate],
                      validation)
    /\ UNCHANGED <<tz, now, formData, call>>
    /\ Render

\* the request of submission i that has not settled yet
AwaitedBy(k, op) ==
    /\ k \in DOMAIN net
    /\ net[k].op = op
    /\ net[k].settle = Pending
    /\ subs[net[k].sub].pc = op

Settle(k, settle) ==
    [net EXCEPT ![k].settle = settle,
                ![k].at = 1 + Cardinality({j \in DOMAIN net : net[j].settle # Pending})]

\* a bug: the finally block is missing after a failure
FailWith_noFinally(i, outcome, msg) ==
    /\ error' = msg
    /\ weatherData' = Null
    /\ chartData' = Null
    /\ tableData' = <<>>
    /\ subs' = [subs EXCEPT ![i].pc = "done", ![i].outcome = outcome,
                            ![i].message = msg, ![i].reported = @ + 1]
    /\ UNCHANGED <<lastQuery, loading>>

\* setError(msg); setWeatherData(null); setChartData(null); setTableData([]);
\* then the finally block
FailWith(i, outcome, msg) ==
    /\ error' = msg
    /\ weatherData' = Null
    /\ chartData' = Null
    /\ tableData' = <<>>
    /\ loading' = FALSE
    /\ subs' = [subs EXCEPT ![i].pc = "done", ![i].outcome = outcome,
                            ![i].message = msg, ![i].reported = @ + 1]
    /\ UNCHANGED lastQuery

\* the catch block of handleFormSubmit, then the finally block
Caught(i) ==
    /\ error' = Str(MsgUnexpected)
    /\ loading' = FALSE
    /\ subs' = [subs EXCEPT ![i].pc = "done", ![i].outcome = "exception",
                            ![i].message = Str(MsgUnexpected), ![i].reported = @ + 1]
    /\ UNCHANGED <<weatherData, chartData, tableData, lastQuery>>

\* a bug: the object's location is read instead of its filename
FilenameOf_location(data) == IF data.t = "storeBody" THEN data.location ELSE Undefined

\* storeResult.data.filename
FilenameOf(data) == IF data.t = "storeBody" THEN data.filename ELSE Undefined

ContentRequest(i, filename) ==
    Request(i, "content",
            [url |-> "/weather/weather-file-content/", filename |-> filename])

\* a bug: a failed store call is issued once more
afterStore_retry(k, settle) ==
    LET i == net[k].sub
        storeResult == storeWeatherData(settle)
        stores == {j \in DOMAIN net : net[j].sub = i /\ net[j].op = "store"}
    IN  IF storeResult.success
        THEN /\ subs' = [subs EXCEPT ![i].pc = "content",
                            ![i].locals.filename = FilenameOf(storeResult.data)]
             /\ net' = Append(Settle(k, settle),
                              ContentRequest(i, FilenameOf(storeResult.data)))
             /\ UNCHANGED <<loading, weatherData, chartData, tableData, error,
                            lastQuery>>
        ELSE IF Cardinality(stores) < 2
        THEN /\ net' = Append(Settle(k, settle),
                              Request(i, "store", net[k].req))
             /\ UNCHANGED <<loading, weatherData, chartData, tableData, error,
                            lastQuery, subs>>
        ELSE /\ net' = Settle(k, settle)
             /\ FailWith(i, "storeFailed", storeResult.error)

\* a bug: the content is fetched whether or not the store call succeeded
afterStore_alwaysFetches(k, settle) ==
    LET i == net[k].sub
        storeResult == storeWeatherData(settle)
        filename == IF storeResult.success THEN FilenameOf(storeResult.data)
                    ELSE Undefined
    IN  /\ subs' = [subs EXCEPT ![i].pc = "content", ![i].locals.filename = filename]
        /\ net' = Append(Settle(k, settle), ContentRequest(i, filename))
        /\ UNCHANGED <<loading, weatherData, chartData, tableData, error, lastQuery>>

\* lines 28-35 and 55-66: from the store call's result to the next await
afterStore(k, settle) ==
    LET i == net[k].sub
        storeResult == storeWeatherData(settle)
    IN  IF storeResult.success
        THEN IF storeResult.data.t \in {"null", "undefined"}
             THEN /\ net' = Settle(k, settle)
                  /\ Caught(i)
             ELSE LET filename == FilenameOf(storeResult.data)
                  IN  /\ subs' = [subs EXCEPT ![i].pc = "content",
                                              ![i].locals.filename = filename]
                      /\ net' = Append(Settle(k, settle), ContentRequest(i, filename))
                      /\ UNCHANGED <<loading, weatherData, chartData, tableData,
                                     error, lastQuery>>
        ELSE /\ net' = Settle(k, settle)
             /\ FailWith(i, "storeFailed", storeResult.error)

\* another design: the result of a submission that is no longer the newest
\* is dropped
afterContent_newestOnly(k, settle) ==
    LET i == net[k].sub
        contentResult == getWeatherFileContent(settle)
        l == subs[i].locals
    IN  /\ net' = Settle(k, settle)
        /\ IF i # Len(subs)
           THEN /\ loading' = FALSE
                /\ subs' = [subs EXCEPT ![i].pc = "done", ![i].outcome = "loaded"]
                /\ UNCHANGED <<weatherData, chartData, tableData, lastQuery, error>>
           ELSE IF contentResult.success
           THEN /\ weatherData' = contentResult.data
                /\ chartData' = transformDataForChart(contentResult.data)
                /\ tableData' = transformDataForTable(contentResult.data)
                /\ lastQuery' =
                     [t |-> "query", latitude |-> l.latitude, longitude |-> l.longitude,
                      startDate |-> l.startDateStr, endDate |-> l.endDateStr,
                      location |-> Str(toFixed(l.latitude.n, 4) \o ", "
                                       \o toFixed(l.longitude.n, 4)),
                      filename |-> l.filename]
                /\ loading' = FALSE
                /\ subs' = [subs EXCEPT ![i].pc = "done", ![i].outcome = "loaded"]
                /\ UNCHANGED error
           ELSE FailWith(i, "contentFailed", contentResult.error)

\* a bug: the finally block is missing, loading is never reset
afterContent_noFinally(k, settle) ==
    LET i == net[k].sub
        contentResult == getWeatherFileContent(settle)
        l == subs[i].locals
    IN  /\ net' = Settle(k, settle)
        /\ IF contentResult.success
           THEN /\ weatherData' = contentResult.data
                /\ chartData' = transformDataForChart(contentResult.data)
                /\ tableData' = transformDataForTable(contentResult.data)
                /\ lastQuery' =
                     [t |-> "query", latitude |-> l.latitude, longitude |-> l.longitude,
                      startDate |-> l.startDateStr, endDate |-> l.endDateStr,
                      location |-> Str(toFixed(l.latitude.n, 4) \o ", "
                                       \o toFixed(l.longitude.n, 4)),
                      filename |-> l.filename]
                /\ subs' = [subs EXCEPT ![i].pc = "done", ![i].outcome = "loaded"]
                /\ UNCHANGED <<error, loading>>
           ELSE /\ error' = contentResult.error
                /\ weatherData' = Null
                /\ chartData' = Null
                /\ tableData' = <<>>
                /\ subs' = [subs EXCEPT ![i].pc = "done",
                                        ![i].outcome = "contentFailed",
                                        ![i].message = contentResult.error,
                                        ![i].reported = @ + 1]
                /\ UNCHANGED <<lastQuery, loading>>

\* a bug: setTableData is missing from the success branch
afterContent_staleTable(k, settle) ==
    LET i == net[k].sub
        contentResult == getWeatherFileContent(settle)
        l == subs[i].locals
    IN  /\ net' = Settle(k, settle)
        /\ IF contentResult.success
           THEN /\ weatherData' = contentResult.data
                /\ chartData' = transformDataForChart(contentResult.data)
                /\ lastQuery' =
                     [t |-> "query", latitude |-> l.latitude, longitude |-> l.longitude,
                      startDate |-> l.startDateStr, endDate |-> l.endDateStr,
                      location |-> Str(toFixed(l.latitude.n, 4) \o ", "
                                       \o toFixed(l.longitude.n, 4)),
                      filename |-> l.filename]
                /\ loading' = FALSE
                /\ subs' = [subs EXCEPT ![i].pc = "done", ![i].outcome = "loaded"]
                /\ UNCHANGED <<error, tableData>>
           ELSE FailWith(i, "contentFailed", contentResult.error)

\* lines 35-54 and 61-66: from the content call's result to the end
afterContent(k, settle) ==
    LET i == net[k].sub
        contentResult == getWeatherFileContent(settle)
        l == subs[i].locals
    IN  /\ net' = Settle(k, settle)
        /\ IF contentResult.success
           THEN /\ weatherData' = contentResult.data
                /\ chartData' = transformDataForChart(contentResult.data)
                /\ tableData' = transformDataForTable(contentResult.data)
                /\ lastQuery' =
                     [t |-> "query", latitude |-> l.latitude, longitude |-> l.longitude,
                      startDate |-> l.startDateStr, endDate |-> l.endDateStr,
                      location |-> Str(toFixed(l.latitude.n, 4) \o ", "
                                       \o toFixed(l.longitude.n, 4)),
                      filename |-> l.filename]
                /\ loading' = FALSE
                /\ subs' = [subs EXCEPT ![i].pc = "done", ![i].outcome = "loaded"]
                /\ UNCHANGED error
           ELSE FailWith(i, "contentFailed", contentResult.error)

StoreSettles ==
    \E k \in DOMAIN net :
        /\ AwaitedBy(k, "store")
        /\ \E settle \in StoreSettlements(k) : afterStore(k, settle)
        /\ UNCHANGED <<tz, now, formData, errors, call>>
        /\ Render

ContentSettles ==
    \E k \in DOMAIN net :
        /\ AwaitedBy(k, "content")
        /\ \E settle \in ContentSettlements : afterContent(k, settle)
        /\ UNCHANGED <<tz, now, formData, errors, call>>
        /\ Render

InputChanges ==
    \E field \in {"latitude", "longitude", "startDate", "endDate"} :
        \E value \in FieldValues(field) : handleInputChange(field, value)

-----------------------------------------------------------------------------
(* The dashboard as a state machine *)

TimeZones == {-5, 9}
\* the clock: 15:00 local time on day BaseDay (6 November 2023)
BaseDay == 19667
ClockHour == 15

NoCall == [fn |-> "none", arg |-> Null, ret |-> Null]

Init ==
    /\ tz \in TimeZones
    /\ now = MidnightOf(BaseDay) + ClockHour
    /\ formData = [latitude |-> <<>>, longitude |-> <<>>,
                   startDate |-> Null, endDate |-> Null]
    /\ errors = NoErrors
    /\ loading = FALSE
    /\ weatherData = Null
    /\ chartData = Null
    /\ tableData = <<>>
    /\ error = Null
    /\ lastQuery = Null
    /\ subs = <<>>
    /\ net = <<>>
    /\ call = NoCall
    /\ table = Unmounted(0)

Next ==
    \/ InputChanges
    \/ handleSubmit
    \/ StoreSettles
    \/ ContentSettles

Spec == Init /\ [][Next]_vars

\* handleFormSubmit called as the prop onSubmit, at any time and with any
\* validated query: the function itself does not wait for a submission
\* under way.  (WeatherForm calls it from its submit button only, which is
\* disabled while loading.)  Successive calls carry different latitudes, so
\* that lastQuery tells whose query is held.
Queries ==
    [latitude : {Num(Deg(90 - Len(subs)))},
     longitude : {Num(Deg(-180))},
     startDate : {LocalMidnight(Today - 1)},
     endDate : {LocalMidnight(Today)}]

CallHandleFormSubmit ==
    /\ Len(subs) < MaxSubmissions
    /\ \E fd \in Queries : handleFormSubmit(fd, Valid)
    /\ UNCHANGED <<tz, now, formData, errors, call>>
    /\ Render

NextSubmits ==
    \/ CallHandleFormSubmit
    \/ StoreSettles
    \/ ContentSettles

SpecSubmits == Init /\ [][NextSubmits]_vars

\* every request settles: axios gives up a request of the backend after
\* its timeout of 30000 ms
FairSpec == Spec /\ WF_vars(StoreSettles) /\ WF_vars(ContentSettles)

-----------------------------------------------------------------------------
(* components/WeatherTable.jsx: exportToCSV.  data is the prop of the      *)
(* table, Arr(rows) or null/undefined; the result is the text handed to    *)
(* the download, Undefined when the function returns before making one.    *)

\* the options of the page-size select
PageSizes == {10, 20, 50}

\* Math.ceil((data?.length || 0) / itemsPerPage)
totalPages == Ceil(Len(tableData), table.itemsPerPage)

\* the pagination is rendered when the table is mounted with rows
PaginationShown == table.mounted /\ Len(tableData) > 0

\* the page numbers of the (at most five) numbered buttons
PageNumbers ==
    {IF totalPages <= 5 THEN i + 1
     ELSE IF table.currentPage <= 3 THEN i + 1
     ELSE IF table.currentPage >= totalPages - 2 THEN totalPages - 4 + i
     ELSE table.currentPage - 2 + i :
         i \in 0..((IF totalPages < 5 THEN totalPages ELSE 5) - 1)}

\* the arguments the buttons pass to handlePageChange: the previous page
\* unless currentPage is 1, the next page unless currentPage is totalPages,
\* and the numbered pages
PageButtons ==
    (IF table.currentPage = 1 THEN {} ELSE {table.currentPage - 1})
    \cup (IF table.currentPage = totalPages THEN {} ELSE {table.currentPage + 1})
    \cup PageNumbers

\* setCurrentPage(Math.max(1, Math.min(newPage, totalPages)))
handlePageChange(newPage) ==
    LET m == IF newPage < totalPages THEN newPage ELSE totalPages
    IN  table' = [table EXCEPT !.currentPage = IF m > 1 THEN m ELSE 1]

PageChanges ==
    /\ PaginationShown
    /\ \E newPage \in PageButtons : handlePageChange(newPage)
    /\ UNCHANGED <<tz, now, formData, errors, loading, weatherData, chartData,
                   tableData, error, lastQuery, subs, net, call>>

\* a bug: the page is kept when the page size changes
handleItemsPerPageChange_keepsPage(size) ==
    table' = [table EXCEPT !.itemsPerPage = size]

\* the select's onChange: setItemsPerPage(Number(e.target.value));
\* setCurrentPage(1)
handleItemsPerPageChange(size) ==
    table' = [table EXCEPT !.itemsPerPage = size, !.currentPage = 1]

PageSizeChanges ==
    /\ PaginationShown
    /\ \E size \in PageSizes : handleItemsPerPageChange(size)
    /\ UNCHANGED <<tz, now, formData, errors, loading, weatherData, chartData,
                   tableData, error, lastQuery, subs, net, call>>

\* The dashboard with its table: the form holds a valid query, which is
\* submitted again and again
InitTable ==
    /\ tz \in TimeZones
    /\ now = MidnightOf(BaseDay) + ClockHour
    /\ formData = [latitude |-> <<"9", "0">>, longitude |-> <<"-", "1", "8", "0">>,
                   startDate |-> LocalMidnight(Today - 1),
                   endDate |-> LocalMidnight(Today)]
    /\ errors = NoErrors
    /\ loading = FALSE
    /\ weatherData = Null
    /\ chartData = Null
    /\ tableData = <<>>
    /\ error = Null
    /\ lastQuery = Null
    /\ subs = <<>>
    /\ net = <<>>
    /\ call = NoCall
    /\ table = Unmounted(0)

NextTable ==
    \/ handleSubmit
    \/ StoreSettles
    \/ ContentSettles
    \/ PageChanges
    \/ PageSizeChanges

SpecTable == InitTable /\ [][NextTable]_vars

RECURSIVE TrimZeros(_)
TrimZeros(cs) ==
    IF cs = <<>> THEN <<>>
    ELSE IF cs[Len(cs)] = "0" THEN TrimZeros(SubSeq(cs, 1, Len(cs) - 1))
    ELSE cs

\* String(n) of a number: the shortest decimal, without trailing zeros
NumberToString(n) ==
    LET a == Abs(n)
        frac == TrimZeros(FixedChars(a % Scale, FracDigits))
    IN  Join((IF n < 0 THEN <<"-">> ELSE <<>>)
             \o NatChars(a \div Scale)
             \o (IF frac = <<>> THEN <<>> ELSE <<".">> \o frac))

\* an element as Array.prototype.join writes it: null and undefined are
\* written as the empty string
JoinElement(x) ==
    CASE x.t = "string" -> x.s
      [] x.t = "number" -> NumberToString(x.n)
      [] x.t = "NaN" -> "NaN"
      [] OTHER -> ""

RECURSIVE JoinWith(_, _)
JoinWith(ss, sep) ==
    IF ss = <<>> THEN ""
    ELSE IF Len(ss) = 1 THEN ss[1]
    ELSE ss[1] \o sep \o JoinWith(Tail(ss), sep)

CsvHeaders ==
    <<"Date", "Max Temp (°C)", "Min Temp (°C)", "Mean Temp (°C)",
      "Max Apparent Temp (°C)", "Min Apparent Temp (°C)",
      "Mean Apparent Temp (°C)">>

\* a bug: the numbers are written as the table cells show them, toFixed(1)
exportToCSV_formatted(data) ==
    IF ~Truthy(data) \/ Len(data.a) = 0 THEN Undefined
    ELSE LET cell(x) == IF x.t = "number" THEN toFixed(x.n, 1) ELSE JoinElement(x)
             line(row) ==
                 JoinWith(<<cell(row.date), cell(row.tempMax),
                            cell(row.tempMin), cell(row.tempMean),
                            cell(row.apparentTempMax),
                            cell(row.apparentTempMin),
                            cell(row.apparentTempMean)>>, ",")
         IN  Str(JoinWith(<<JoinWith(CsvHeaders, ",")>>
                          \o [i \in 1..Len(data.a) |-> line(data.a[i])], "\n"))

exportToCSV(data) ==
    IF ~Truthy(data) \/ Len(data.a) = 0 THEN Undefined
    ELSE LET line(row) ==
                 JoinWith(<<JoinElement(row.date), JoinElement(row.tempMax),
                            JoinElement(row.tempMin), JoinElement(row.tempMean),
                            JoinElement(row.apparentTempMax),
                            JoinElement(row.apparentTempMin),
                            JoinElement(row.apparentTempMean)>>, ",")
         IN  Str(JoinWith(<<JoinWith(CsvHeaders, ",")>>
                          \o [i \in 1..Len(data.a) |-> line(data.a[i])], "\n"))

-----------------------------------------------------------------------------
(* Direct calls of the exported functions: call holds the function, the    *)
(* argument and the result of the last call.  A network function is called *)
(* with the way its request settles.                                       *)

LatitudeInputs ==
    {<<>>, <<"a", "b", "c">>, <<"-">>, <<"-", "9", "0">>, <<"9", "0">>,
     <<"+", "9", "0">>, <<"9", "0", ".", "0", "0", "0", "1">>,
     <<"-", "9", "0", ".", "0", "0", "0", "1">>, <<"-", "9", "1">>,
     <<"2", "0", "0">>, <<"4", "0", ".", "7", "1", "2", "8">>, <<".", "5">>,
     <<"4", "5", "a", "b", "c">>, <<"0">>}

LongitudeInputs ==
    {<<>>, <<"x">>, <<"-", "1", "8", "0">>, <<"1", "8", "0">>,
     <<"1", "8", "0", ".", "0", "0", "0", "1">>,
     <<"-", "1", "8", "0", ".", "0", "0", "0", "1">>, <<"1", "8", "1">>,
     <<"-", "7", "4", ".", "0", "0", "6">>, <<"9", "0", ".", "0", "0", "0", "1">>,
     <<"-", "9", "1">>, <<"1", "2", "0", "a", "b", "c">>}

\* local midnights around the limits of the range check, and two instants
\* that carry a time of day
DateInputs ==
    {Null, Undefined, InvalidDate}
    \cup {LocalMidnight(Today + d) : d \in {-731, -730, -1, 0, 1}}
    \cup {Date(LocalMidnight(Today).h + 12), Date(LocalMidnight(Today - 731).h + 1)}

FormInputs ==
    [latitude : {<<>>, <<"2", "0", "0">>, <<"9", "0">>, <<"4", "5", "a", "b", "c">>},
     longitude : {<<"x">>, <<"1", "8", "1">>, <<"-", "1", "8", "0">>},
     startDate : {Null, InvalidDate, LocalMidnight(Today - 731), LocalMidnight(Today - 1),
                  LocalMidnight(Today + 1)},
     endDate : {Null, LocalMidnight(Today - 1), LocalMidnight(Today),
                LocalMidnight(Today + 1)}]

SampleStoreRequest ==
    [url |-> "/weather/store-weather-data", latitude |-> Num(Deg(90)),
     longitude |-> Num(Deg(-180)), start_date |-> Str("D19666"),
     end_date |-> Str("D19667")]

ListBody == [t |-> "listBody", files |-> Arr(<<Str("a.json")>>), count |-> Num(Scale)]
HealthBody == [t |-> "healthBody", status |-> Str("healthy")]

Rejections ==
    {ServerError500, ServerError404, ServerError502, RejectedNoResponse,
     RejectedSetup(Str("timeout of 30000ms exceeded")), RejectedSetup(Str("")),
     RejectedSetup(Undefined)}

\* the provider answers the direct call; its body may lack daily or be null
ProviderSettlements ==
    {Resolved(PayloadFull), Resolved(PayloadShort), Resolved(PayloadNoDaily),
     Resolved(Null)} \cup Rejections

\* raw responses handed to the transformer: whole and with parts missing
\* the series are complete, but hold null where the archive has no value yet
PayloadGaps ==
    Payload(Daily(TwoDays,
                  Arr(<<Temp(52), Null>>), Arr(<<Temp(-21), Null>>),
                  Arr(<<Temp(15), Temp(0)>>), Arr(<<Null, Null>>),
                  Arr(<<Temp(-42), Temp(-18)>>), Arr(<<Temp(-2), Null>>)))
PayloadEmptyDaily ==
    Payload([t |-> "daily", time |-> Undefined,
             temperature_2m_max |-> Undefined, temperature_2m_min |-> Undefined,
             temperature_2m_mean |-> Undefined, apparent_temperature_max |-> Undefined,
             apparent_temperature_min |-> Undefined,
             apparent_temperature_mean |-> Undefined])
PayloadTimeOnly ==
    Payload(Daily(TwoDays, Undefined, Undefined, Undefined, Undefined, Undefined,
                  Undefined))
PayloadNoTime ==
    Payload(Daily(Undefined, Arr(<<Temp(52), Temp(71)>>), Undefined,
                  Arr(<<Temp(15), Temp(37)>>), Undefined, Undefined, Undefined))

RawResponses ==
    {Null, Undefined, PayloadNoDaily, Payload(Null), PayloadFull, PayloadShort,
     PayloadGaps, PayloadEmptyDaily, PayloadTimeOnly, PayloadNoTime,
     PayloadMonth}
    \cup {PayloadOfDays(n) : n \in 0..MaxDays}

\* the call and its result are recorded in call.  The functions keep nothing
\* between two calls, so a behaviour makes one call.
Called(fn, arg, ret) ==
    /\ call = NoCall
    /\ call' = [fn |-> fn, arg |-> arg, ret |-> ret]

\* the exported functions are pure: a direct call leaves the dashboard alone
DashboardUntouched ==
    UNCHANGED <<tz, now, formData, errors, loading, weatherData, chartData,
                tableData, error, lastQuery, subs, net, table>>

StoreReplies == {Resolved(StoreBody(SampleStoreRequest, 1))} \cup Rejections
ListReplies == {Resolved(ListBody)} \cup Rejections
ContentReplies ==
    {Resolved(PayloadFull), Resolved(PayloadShort), Resolved(PayloadNoDaily)}
    \cup Rejections
HealthReplies == {Resolved(HealthBody)} \cup Rejections

CallValidateLatitude ==
    \E v \in LatitudeInputs :
        /\ Called("validateLatitude", v, validateLatitude(v))
        /\ DashboardUntouched

CallValidateLongitude ==
    \E v \in LongitudeInputs :
        /\ Called("validateLongitude", v, validateLongitude(v))
        /\ DashboardUntouched

CallValidateDateRange ==
    \E s \in DateInputs : \E e \in DateInputs :
        /\ Called("validateDateRange", [startDate |-> s, endDate |-> e],
                  validateDateRange(s, e))
        /\ DashboardUntouched

CallValidateFormInputs ==
    \E fd \in FormInputs :
        /\ Called("validateFormInputs", fd, validateFormInputs(fd))
        /\ DashboardUntouched

CallStoreWeatherData ==
    \E settle \in StoreReplies :
        /\ Called("storeWeatherData", settle, storeWeatherData(settle))
        /\ DashboardUntouched

CallListWeatherFiles ==
    \E settle \in ListReplies :
        /\ Called("listWeatherFiles", settle, listWeatherFiles(settle))
        /\ DashboardUntouched

CallGetWeatherFileContent ==
    \E settle \in ContentReplies :
        /\ Called("getWeatherFileContent", settle, getWeatherFileContent(settle))
        /\ DashboardUntouched

CallCheckHealth ==
    \E settle \in HealthReplies :
        /\ Called("checkHealth", settle, checkHealth(settle))
        /\ DashboardUntouched

CallFetchWeatherData ==
    \E settle \in ProviderSettlements :
        /\ Called("fetchWeatherData", settle, fetchWeatherData(settle))
        /\ DashboardUntouched

CallTransformDataForChart ==
    \E wd \in RawResponses :
        /\ Called("transformDataForChart", wd, transformDataForChart(wd))
        /\ DashboardUntouched

CallTransformDataForTable ==
    \E wd \in RawResponses :
        /\ Called("transformDataForTable", wd, transformDataForTable(wd))
        /\ DashboardUntouched

\* the tables the dashboard can hand to WeatherTable, and no table
TableProps ==
    {Null, Undefined} \cup {Arr(transformDataForTable(wd)) : wd \in RawResponses}

CallExportToCSV ==
    \E data \in TableProps :
        /\ Called("exportToCSV", data, exportToCSV(data))
        /\ DashboardUntouched

CallWeatherApiTransformDataForChart ==
    \E wd \in RawResponses :
        /\ Called("weatherApi.transformDataForChart", wd,
                  weatherApi_transformDataForChart(wd))
        /\ DashboardUntouched

CallWeatherApiTransformDataForTable ==
    \E wd \in RawResponses :
        /\ Called("weatherApi.transformDataForTable", wd,
                  weatherApi_transformDataForTable(wd))
        /\ DashboardUntouched

NextCalls ==
    \/ CallWeatherApiTransformDataForChart
    \/ CallWeatherApiTransformDataForTable
    \/ CallExportToCSV
    \/ CallValidateLatitude
    \/ CallValidateLongitude
    \/ CallValidateDateRange
    \/ CallValidateFormInputs
    \/ CallStoreWeatherData
    \/ CallListWeatherFiles
    \/ CallGetWeatherFileContent
    \/ CallCheckHealth
    \/ CallFetchWeatherData
    \/ CallTransformDataForChart
    \/ CallTransformDataForTable

SpecCalls == Init /\ [][NextCalls]_vars

-----------------------------------------------------------------------------
(* Claims about the validator, checked on the direct calls (SpecCalls) *)

InRange(p, lo, hi) == ~isNaN(p) /\ Deg(lo) <= p.n /\ p.n <= Deg(hi)

\* C1: validateLatitude(v) succeeds, with error null, exactly when v parses
\* (as parseFloat reads it) to a number in [-90, 90]; -90 and 90 are accepted
\* and 90.0001 is rejected; a text that does not parse fails with the
\* invalid-number message and a parsed value out of range with the
\* out-of-range message.
C1_LatitudeIffInRange ==
    call.fn = "validateLatitude" =>
        LET p == parseFloat(call.arg)
            r == call.ret
        IN  /\ r.isValid <=> InRange(p, -90, 90)
            /\ r.isValid => r.error = Null
            /\ isNaN(p) => r = [isValid |-> FALSE, error |-> Str(MsgLatNumber)]
            /\ (~isNaN(p) /\ ~InRange(p, -90, 90))
                  => r = [isValid |-> FALSE, error |-> Str(MsgLatRange)]
            /\ call.arg \in {<<"-", "9", "0">>, <<"9", "0">>} => r.isValid
            /\ call.arg = <<"9", "0", ".", "0", "0", "0", "1">> => ~r.isValid
            /\ call.arg \in {<<>>, <<"a", "b", "c">>, <<"-">>}
                  => r.error = Str(MsgLatNumber)

C1_Witness ==
    /\ call.fn = "validateLatitude"
    /\ call.arg = <<"9", "0", ".", "0", "0", "0", "1">>
    /\ call.ret = [isValid |-> FALSE, error |-> Str(MsgLatRange)]

\* C2: validateLongitude(v) succeeds exactly when v parses to a number in
\* [-180, 180]; -180 and 180 are accepted.
C2_LongitudeIffInRange ==
    call.fn = "validateLongitude" =>
        LET p == parseFloat(call.arg)
            r == call.ret
        IN  /\ r.isValid <=> InRange(p, -180, 180)
            /\ r.isValid => r.error = Null
            /\ call.arg \in {<<"-", "1", "8", "0">>, <<"1", "8", "0">>} => r.isValid
            /\ call.arg = <<"1", "8", "0", ".", "0", "0", "0", "1">> => ~r.isValid

C2_Witness ==
    /\ call.fn = "validateLongitude"
    /\ call.arg = <<"1", "8", "0">>
    /\ call.ret = [isValid |-> TRUE, error |-> Null]

\* C3: validateFormInputs returns the result of the first validator that
\* fails, in the order latitude, longitude, date range, and succeeds exactly
\* when all three succeed.
C3_FirstFailureInOrder ==
    call.fn = "validateFormInputs" =>
        LET fd == call.arg
            lat == validateLatitude(fd.latitude)
            lng == validateLongitude(fd.longitude)
            dates == validateDateRange(fd.startDate, fd.endDate)
        IN  /\ ~lat.isValid => call.ret = lat
            /\ (lat.isValid /\ ~lng.isValid) => call.ret = lng
            /\ (lat.isValid /\ lng.isValid /\ ~dates.isValid) => call.ret = dates
            /\ call.ret.isValid <=> (lat.isValid /\ lng.isValid /\ dates.isValid)
            /\ call.ret.isValid => call.ret.error = Null

\* a bad latitude together with a bad date range reports the latitude
C3_Witness ==
    /\ call.fn = "validateFormInputs"
    /\ call.arg.latitude = <<"2", "0", "0">>
    /\ call.arg.longitude = <<"-", "1", "8", "0">>
    /\ call.arg.startDate = Null
    /\ call.ret = [isValid |-> FALSE, error |-> Str(MsgLatRange)]

-----------------------------------------------------------------------------
(* Claims about the results of the network calls (SpecCalls) *)

BackendCalls ==
    {"storeWeatherData", "getWeatherFileContent", "listWeatherFiles", "checkHealth"}

FailureClass(err) ==
    IF Truthy(err.response) THEN "ServerError"
    ELSE IF Truthy(err.request) THEN "Unreachable"
    ELSE "RequestConstructionError"

\* the server's message if it sent one, else the status text
ServerMessage(response) ==
    IF response.data.t = "errorBody" /\ Truthy(response.data.error)
    THEN response.data.error.s
    ELSE response.statusText

ClientMessage(err) ==
    IF Truthy(err.message) THEN err.message ELSE Str("Unknown error occurred")

RuleMessage(err) ==
    CASE FailureClass(err) = "ServerError" ->
           Str("API Error: " \o ToString(err.response.status) \o " - "
               \o ServerMessage(err.response))
      [] FailureClass(err) = "Unreachable" ->
           Str("Network error: Unable to reach backend service")
      [] OTHER -> ClientMessage(err)

NetworkCalls == BackendCalls \cup {"fetchWeatherData"}

\* C8 as stated: every network function maps a failure to the message of
\* the one three-way rule.
C8_SameRuleEverywhere ==
    (call.fn \in NetworkCalls /\ call.arg.settled = "rejected") =>
        call.ret.error = RuleMessage(call.arg.error)

\* C8, amended: storeWeatherData, getWeatherFileContent and listWeatherFiles
\* apply the one three-way rule; fetchWeatherData classifies the same three
\* ways but reports a server error with the status and the status text only
\* and names the weather service when nothing came back; checkHealth reports
\* every failure with one fixed message.
C8_RulePerFunction ==
    (call.fn \in NetworkCalls /\ call.arg.settled = "rejected") =>
        LET err == call.arg.error
            msg == call.ret.error
        IN  /\ call.fn \in {"storeWeatherData", "getWeatherFileContent",
                            "listWeatherFiles"} => msg = RuleMessage(err)
            /\ call.fn = "checkHealth" => msg = Str("Backend service is unavailable")
            /\ call.fn = "fetchWeatherData" =>
                 msg = CASE FailureClass(err) = "ServerError" ->
                              Str("API Error: " \o ToString(err.response.status)
                                  \o " - " \o err.response.statusText)
                         [] FailureClass(err) = "Unreachable" ->
                              Str("Network error: Unable to reach weather service")
                         [] OTHER -> ClientMessage(err)

C8_Witness ==
    /\ call.fn = "listWeatherFiles"
    /\ call.arg = ServerError500
    /\ call.ret.error = Str("API Error: 500 - Failed to fetch weather data")

-----------------------------------------------------------------------------
(* Claims about one submission of the form (Spec) *)

RequestsOf(i, op) == {k \in DOMAIN net : net[k].sub = i /\ net[k].op = op}

FailedOutcomes == {"invalid", "exception", "storeFailed", "contentFailed"}

\* C4: a submission whose form fails validation ends failed with the
\* validation error, shown by the form, and never issues a store or a
\* content request (so with latitude 200, which ends with the out-of-range
\* message).
C4_InvalidFormMakesNoCall ==
    \A i \in DOMAIN subs :
        ~subs[i].validation.isValid =>
            /\ subs[i].pc = "done"
            /\ subs[i].outcome = "invalid"
            /\ subs[i].message = subs[i].validation.error
            /\ RequestsOf(i, "store") = {}
            /\ RequestsOf(i, "content") = {}
            /\ i = Len(subs) => errors.general = subs[i].validation.error

C4_Witness ==
    /\ Len(subs) = 1
    /\ formData.latitude = <<"2", "0", "0">>
    /\ subs[1].outcome = "invalid"
    /\ subs[1].message = Str(MsgLatRange)
    /\ net = <<>>

\* C5: a submission whose store request is rejected ends failed with the
\* store error (for a server error the status and the server's message) and
\* never issues the content request.
C5_StoreFailureEndsSubmission ==
    \A k \in DOMAIN net :
        (net[k].op = "store" /\ net[k].settle.settled = "rejected") =>
            LET i == net[k].sub
            IN  /\ subs[i].pc = "done"
                /\ subs[i].outcome = "storeFailed"
                /\ subs[i].message = RuleMessage(net[k].settle.error)
                /\ net[k].settle = ServerError500 =>
                     subs[i].message =
                        Str("API Error: 500 - Failed to fetch weather data")
                /\ RequestsOf(i, "content") = {}
                /\ i = Len(subs) => (error = subs[i].message /\ ~loading)

C5_Witness ==
    \E k \in DOMAIN net :
        /\ net[k].op = "store"
        /\ net[k].settle = ServerError500
        /\ subs[net[k].sub].outcome = "storeFailed"
        /\ error = Str("API Error: 500 - Failed to fetch weather data")

\* C6: a content request is issued only after the store request of the same
\* submission has resolved, it asks for the filename that store response
\* returned, and a submission never has two requests in flight.
C6_StagesSequential ==
    /\ \A k \in DOMAIN net :
          net[k].op = "content" =>
              \E j \in 1..(k - 1) :
                  /\ net[j].sub = net[k].sub
                  /\ net[j].op = "store"
                  /\ net[j].settle.settled = "resolved"
                  /\ net[j].settle.response.data.t = "storeBody"
                  /\ net[k].req.filename = net[j].settle.response.data.filename
    /\ \A i \in DOMAIN subs :
          /\ Cardinality({k \in DOMAIN net :
                            net[k].sub = i /\ net[k].settle = Pending}) <= 1
          /\ subs[i].pc = "store" => RequestsOf(i, "content") = {}

C6_Witness ==
    \E k \in DOMAIN net :
        /\ net[k].op = "content"
        /\ net[k].settle = Pending
        /\ net[k].req.filename.t = "string"
        /\ subs[net[k].sub].pc = "content"

\* C9: a submission issues at most one store and at most one content
\* request; once a stage fails the submission is over, its error has been
\* set exactly once and no later stage runs.
C9_NoRetries ==
    \A i \in DOMAIN subs :
        /\ Cardinality(RequestsOf(i, "store")) <= 1
        /\ Cardinality(RequestsOf(i, "content")) <= 1
        /\ subs[i].outcome \in FailedOutcomes =>
              /\ subs[i].pc = "done"
              /\ subs[i].reported = 1
              /\ \A k \in DOMAIN net : net[k].sub = i => net[k].settle # Pending
        /\ subs[i].outcome \in {"invalid", "storeFailed"} =>
              RequestsOf(i, "content") = {}
        /\ subs[i].outcome \in {"pending", "loaded"} => subs[i].reported = 0

C9_Witness ==
    \E i \in DOMAIN subs :
        /\ subs[i].outcome = "contentFailed"
        /\ subs[i].reported = 1
        /\ Cardinality(RequestsOf(i, "store")) = 1
        /\ Cardinality(RequestsOf(i, "content")) = 1

\* C10: a submission that ends failed, at validation, at the store request,
\* at the content request or by an exception, carries one message, a
\* non-empty string, and that string is what the page shows.
C10_OneMessage ==
    \A i \in DOMAIN subs :
        subs[i].outcome \in FailedOutcomes =>
            /\ subs[i].message.t = "string"
            /\ subs[i].message.s # ""
            /\ i = Len(subs) =>
                 IF subs[i].outcome = "invalid"
                 THEN errors.general = subs[i].message
                 ELSE error = subs[i].message

C10_Witness ==
    \E i \in DOMAIN subs :
        /\ subs[i].outcome = "storeFailed"
        /\ subs[i].message = Str("Unknown error occurred")
        /\ error = Str("Unknown error occurred")

-----------------------------------------------------------------------------
(* Claims about validateDateRange (SpecCalls).  A calendar date is a Date  *)
(* at 00:00 local time, as the date pickers of the form deliver it.        *)

Absent(d) == d.t \in {"null", "undefined"}
LocalDay(d) == (d.h + OffsetAt(d.h)) \div HoursPerDay
IsCalendarDate(d) == d.t = "date" /\ d.valid /\ d.h = MidnightOf(LocalDay(d))

\* C11: with both dates present, validateDateRange fails with the
\* inverted-range error exactly when start is after end; a range of one day
\* (start = end) is never reported as inverted.
C11_InvertedIffStartAfterEnd ==
    (call.fn = "validateDateRange"
        /\ ~Absent(call.arg.startDate) /\ ~Absent(call.arg.endDate)) =>
        LET start == call.arg.startDate
            end == call.arg.endDate
            inverted == call.ret = [isValid |-> FALSE, error |-> Str(MsgInverted)]
        IN  /\ (start.valid /\ end.valid) => (inverted <=> start.h > end.h)
            /\ (IsCalendarDate(start) /\ IsCalendarDate(end))
                  => (inverted <=> LocalDay(start) > LocalDay(end))
            /\ start = end => ~inverted

C11_Witness ==
    /\ call.fn = "validateDateRange"
    /\ call.arg.startDate = LocalMidnight(Today)
    /\ call.arg.endDate = LocalMidnight(Today)
    /\ call.ret = [isValid |-> TRUE, error |-> Null]

\* C12: for calendar dates with start <= end and end not in the future,
\* validateDateRange fails with the range-too-large error exactly when the
\* number of days from start to end exceeds 730: 730 days pass, 731 fail.
C12_TooLargeIffOver730Days ==
    (call.fn = "validateDateRange"
        /\ IsCalendarDate(call.arg.startDate) /\ IsCalendarDate(call.arg.endDate)
        /\ LocalDay(call.arg.startDate) <= LocalDay(call.arg.endDate)
        /\ LocalDay(call.arg.endDate) <= Today) =>
        LET days == LocalDay(call.arg.endDate) - LocalDay(call.arg.startDate)
        IN  /\ call.ret.error = Str(MsgTooLarge) <=> days > 730
            /\ days <= 730 => call.ret.isValid

C14_MissingDateFirst ==
    (call.fn = "validateDateRange"
        /\ (Absent(call.arg.startDate) \/ Absent(call.arg.endDate))) =>
        call.ret = [isValid |-> FALSE, error |-> Str(MsgDatesRequired)]

\* the end alone is absent and the start is a future day
C14_Witness ==
    /\ call.fn = "validateDateRange"
    /\ call.arg.startDate = LocalMidnight(Today + 1)
    /\ call.arg.endDate = Undefined
    /\ call.ret = [isValid |-> FALSE, error |-> Str(MsgDatesRequired)]

-----------------------------------------------------------------------------
(* Claims about the transformer (SpecCalls) *)

\* the fields of a table row and the series of daily they are read from
TableFields ==
    {<<"tempMax", "temperature_2m_max">>, <<"tempMin", "temperature_2m_min">>,
     <<"tempMean", "temperature_2m_mean">>,
     <<"apparentTempMax", "apparent_temperature_max">>,
     <<"apparentTempMin", "apparent_temperature_min">>,
     <<"apparentTempMean", "apparent_temperature_mean">>}

HasDailyField(wd) == ~Absent(wd) /\ wd.t = "payload" /\ ~Absent(wd.daily)
IsArray(x) == x.t = "array"

\* daily.time has n entries and each of the six series has n entries
Parallel(wd) ==
    /\ HasDailyField(wd)
    /\ IsArray(wd.daily.time)
    /\ \A f \in TableFields :
          /\ IsArray(wd.daily[f[2]])
          /\ Len(wd.daily[f[2]].a) = Len(wd.daily.time.a)

RowsFollowTime(wd, rows) ==
    /\ Len(rows) = Len(wd.daily.time.a)
    /\ \A i \in 1..Len(rows) : rows[i].id = i /\ rows[i].date = wd.daily.time.a[i]

\* C15 as stated: for a response with n dates and six series of length n the
\* table has n rows in source order, with id 1..n, the date of the source
\* and every field equal to the element of its series.
C15_RowsEqualSource ==
    (call.fn = "transformDataForTable" /\ Parallel(call.arg)) =>
        /\ RowsFollowTime(call.arg, call.ret)
        /\ \A i \in 1..Len(call.ret) : \A f \in TableFields :
              call.ret[i][f[1]] = call.arg.daily[f[2]].a[i]

\* C15, amended: as above, every field equal to the element of its series
\* when that element is a number, with no rounding; a null element gives
\* the field "N/A".
C15_RowsEqualNumbers ==
    (call.fn = "transformDataForTable" /\ Parallel(call.arg)) =>
        /\ RowsFollowTime(call.arg, call.ret)
        /\ \A i \in 1..Len(call.ret) : \A f \in TableFields :
              LET x == call.arg.daily[f[2]].a[i]
              IN  /\ x.t = "number" => call.ret[i][f[1]] = x
                  /\ x.t = "null" => call.ret[i][f[1]] = Str("N/A")

C15_Witness ==
    /\ call.fn = "transformDataForTable"
    /\ call.arg = PayloadOfDays(MaxDays)
    /\ Len(call.ret) = MaxDays
    /\ call.ret[MaxDays].id = MaxDays
    /\ call.ret[1].tempMax = Temp(52)
    /\ call.ret[1].apparentTempMean = Temp(-7)

\* C16: the table has one row for each index of daily.time, with id one
\* more than the index; each of the six fields is filled on its own and is
\* "N/A" when its series is absent or too short, whatever the other five
\* hold.  With two dates and temperature_2m_max = [5.2] the first row has
\* tempMax 5.2 and the second "N/A".
C16_FieldsIndependent ==
    (call.fn = "transformDataForTable" /\ HasDailyField(call.arg)
        /\ IsArray(call.arg.daily.time)) =>
        /\ RowsFollowTime(call.arg, call.ret)
        /\ \A i \in 1..Len(call.ret) : \A f \in TableFields :
              LET series == call.arg.daily[f[2]]
              IN  /\ (Absent(series) \/ Len(series.a) < i)
                        => call.ret[i][f[1]] = Str("N/A")
                  /\ (IsArray(series) /\ Len(series.a) >= i
                        /\ series.a[i].t = "number")
                        => call.ret[i][f[1]] = series.a[i]
        /\ call.arg = PayloadShort =>
              /\ call.ret[1].tempMax = Num((52 * Scale) \div 10)
              /\ call.ret[2].tempMax = Str("N/A")

\* one row that holds a number and the sentinel side by side
C16_Witness ==
    /\ call.fn = "transformDataForTable"
    /\ call.arg = PayloadShort
    /\ Len(call.ret) = 2
    /\ call.ret[2].tempMax = Str("N/A")
    /\ call.ret[2].tempMean = Temp(37)

\* C17: for a response that is null or has no daily field
\* transformDataForChart returns null and transformDataForTable returns the
\* empty sequence, both as ordinary results.
C17_NoDataResults ==
    (call.fn \in {"transformDataForChart", "transformDataForTable"}
        /\ ~HasDailyField(call.arg)) =>
        /\ call.fn = "transformDataForChart" => call.ret = Null
        /\ call.fn = "transformDataForTable" => call.ret = <<>>

C17_Witness ==
    /\ call.fn = "transformDataForChart"
    /\ call.arg = PayloadNoDaily
    /\ call.ret = Null

\* C18: for a response with a daily field the chart has the labels
\* daily.time (none if absent) and exactly three series, maximum, minimum and
\* mean temperature in this order, each with the values of its field of
\* daily and with no points, but present, if the field is absent.
C18_ThreeSeriesInOrder ==
    (call.fn = "transformDataForChart" /\ HasDailyField(call.arg)) =>
        LET daily == call.arg.daily
            chart == call.ret
            points(field) == IF Absent(field) THEN Arr(<<>>) ELSE field
        IN  /\ chart.labels = points(daily.time)
            /\ Len(chart.datasets) = 3
            /\ chart.datasets[1].label = "Max Temperature" \o " (°C)"
            /\ chart.datasets[2].label = "Min Temperature" \o " (°C)"
            /\ chart.datasets[3].label = "Mean Temperature" \o " (°C)"
            /\ chart.datasets[1].data = points(daily.temperature_2m_max)
            /\ chart.datasets[2].data = points(daily.temperature_2m_min)
            /\ chart.datasets[3].data = points(daily.temperature_2m_mean)

\* the minimum series is absent from the response and present, empty, in
\* the chart
C18_Witness ==
    /\ call.fn = "transformDataForChart"
    /\ call.arg = PayloadShort
    /\ Len(call.ret.datasets) = 3
    /\ call.ret.datasets[2].data = Arr(<<>>)
    /\ call.ret.datasets[1].data = Arr(<<Temp(52)>>)

-----------------------------------------------------------------------------
(* Claims about a submission that loads (FairSpec) *)

\* the number of entries of daily.time in a response
Entries(data) ==
    IF HasDailyField(data) /\ IsArray(data.daily.time)
    THEN Len(data.daily.time.a)
    ELSE 0

Resolved2xx(k) == net[k].settle.settled = "resolved"

\* submission i passed validation and both of its requests resolved
BothSucceeded(i) ==
    /\ subs[i].validation.isValid
    /\ \E j \in RequestsOf(i, "store") : Resolved2xx(j)
    /\ \E k \in RequestsOf(i, "content") : Resolved2xx(k)

\* the dashboard holds what submission i asked for and received
HoldsResultOf(i) ==
    \A j \in RequestsOf(i, "store") : \A k \in RequestsOf(i, "content") :
        LET data == net[k].settle.response.data
        IN  /\ weatherData = data
            /\ Len(tableData) = Entries(data)
            /\ data = PayloadMonth => Len(tableData) = 31
            /\ lastQuery.latitude = net[j].req.latitude
            /\ lastQuery.longitude = net[j].req.longitude
            /\ lastQuery.startDate = net[j].req.start_date
            /\ lastQuery.endDate = net[j].req.end_date
            /\ lastQuery.filename = net[j].settle.response.data.filename
            /\ loading = FALSE

C19_Loaded ==
    \A i \in DOMAIN subs :
        BothSucceeded(i) =>
            /\ subs[i].pc = "done"
            /\ subs[i].outcome = "loaded"
            /\ i = Len(subs) => HoldsResultOf(i)

Running(i) == i <= Len(subs) /\ subs[i].pc # "done"
Finished(i) == i <= Len(subs) /\ subs[i].pc = "done"

\* C19: a submission that passes validation and whose store and content
\* requests both succeed reaches the done state, where weatherData is the
\* response received, tableData has one row for each entry of its daily.time
\* (31 rows for 31 entries), lastQuery holds the query sent and the filename
\* returned and loading is false; and whenever a submission is under way, a
\* state follows in which every submission made has come to an end.
C19_ValidSubmissionLoads ==
    /\ []C19_Loaded
    /\ (\E i \in 1..MaxSubmissions : Running(i))
           ~> (\A i \in 1..Len(subs) : Finished(i))

C19_Witness ==
    /\ Len(subs) = 1
    /\ subs[1].outcome = "loaded"
    /\ weatherData = PayloadMonth
    /\ Len(tableData) = 31
    /\ tableData[31].id = 31
    /\ lastQuery.filename = net[1].settle.response.data.filename
    /\ lastQuery.latitude = Num(Deg(90))
    /\ loading = FALSE

-----------------------------------------------------------------------------
(* Claims about submissions that overlap (SpecSubmits) *)

\* the requests whose settling ended a submission
Completions ==
    {k \in DOMAIN net :
        /\ net[k].settle # Pending
        /\ (net[k].op = "content" \/ net[k].settle.settled = "rejected")}
Loads == {k \in Completions : net[k].settle.settled = "resolved"}
Fetches == {k \in Completions : net[k].op = "content"}

\* the request of S that settled last
LastOf(S) == CHOOSE k \in S : \A j \in S : net[j].at <= net[k].at

\* submission b was started while submission a was under way
InFlightTogether(a, b) ==
    /\ a < b
    /\ b <= Len(subs)
    /\ \E s \in RequestsOf(b, "store") :
          \A k \in Completions : net[k].sub = a => net[k].at > net[s].since

\* the dashboard holds the result of the submission of content request k
HoldsLoadOf(k) ==
    /\ weatherData = net[k].settle.response.data
    /\ Len(tableData) = Entries(net[k].settle.response.data)
    /\ lastQuery.filename = net[k].req.filename
    /\ lastQuery.latitude = subs[net[k].sub].locals.latitude

NoDataHeld == weatherData = Null /\ chartData = Null /\ tableData = <<>>

-----------------------------------------------------------------------------
(* Claims about the state the dashboard holds (Spec) *)

LastSub == subs[Len(subs)]

\* C21: in every state of the dashboard, chartData is
\* transformDataForChart(weatherData) and tableData is
\* transformDataForTable(weatherData), whatever submissions came before.
C21_DerivedFromHeld ==
    /\ chartData = transformDataForChart(weatherData)
    /\ tableData = transformDataForTable(weatherData)

\* a second response has replaced a different first one, and the chart and
\* the table are those of the second
C21_Witness ==
    /\ Len(subs) = 2
    /\ subs[1].outcome = "loaded" /\ subs[2].outcome = "loaded"
    /\ \E k1 \in RequestsOf(1, "content") : \E k2 \in RequestsOf(2, "content") :
          /\ net[k1].settle.response.data = PayloadFull
          /\ net[k2].settle.response.data = PayloadShort
    /\ weatherData = PayloadShort
    /\ chartData # Null
    /\ tableData = transformDataForTable(PayloadShort)
    /\ tableData # transformDataForTable(PayloadFull)

\* C22: when the submission that finished last ended in failure (store
\* failure, fetch failure or an exception inside handleFormSubmit), no data
\* is held: weatherData and chartData are null and tableData is empty.
C22_FailureClearsData ==
    (/\ Len(subs) > 0
     /\ LastSub.pc = "done"
     /\ LastSub.outcome \in {"storeFailed", "contentFailed", "exception"})
        => NoDataHeld

InFlight == {i \in 1..Len(subs) : Running(i)}

\* C23: loading is true exactly in the states in which a submission is in
\* flight, and the submit button is disabled in each of them.
C23_LoadingIffInFlight ==
    /\ loading <=> InFlight # {}
    /\ InFlight # {} => ~SubmitEnabled

\* a second submission is in flight after the first has completed
C23_Witness ==
    /\ Len(subs) = 2
    /\ Finished(1)
    /\ subs[1].outcome = "storeFailed"
    /\ InFlight = {2}
    /\ subs[2].pc = "content"
    /\ loading
    /\ ~SubmitEnabled

\* C24: when no submission is in flight and the submission that completed
\* last loaded its result, error is null.
C24_LoadedWithoutError ==
    (/\ InFlight = {}
     /\ Len(subs) > 0
     /\ LastSub.outcome = "loaded")
        => error = Null

\* the submission before the last one left an error, the last one loaded
C24_Witness ==
    /\ Len(subs) = 2
    /\ InFlight = {}
    /\ subs[1].outcome \in {"storeFailed", "contentFailed", "exception"}
    /\ Truthy(subs[1].message)
    /\ subs[2].outcome = "loaded"
    /\ weatherData # Null
    /\ error = Null

\* the string of the calendar day on which the instant of d falls in the
\* client's time zone
LocalDayString(d) == Str("D" \o ToString(LocalDay(d)))

\* C25: the start_date and end_date of every store request are the calendar
\* days, in the client's time zone, of the startDate and endDate that
\* handleFormSubmit received.
C25_SameCalendarDays ==
    \A k \in DOMAIN net :
        net[k].op = "store" =>
            LET l == subs[net[k].sub].locals
            IN  /\ net[k].req.start_date = LocalDayString(l.startDate)
                /\ net[k].req.end_date = LocalDayString(l.endDate)

-----------------------------------------------------------------------------
(* Claims about the table widget *)

\* a value as the export is to show it: a number as its plain decimal, the
\* sentinel and the date as they are
Raw(x) == IF x.t = "number" THEN NumberToString(x.n) ELSE x.s

CsvColumns ==
    <<"date", "tempMax", "tempMin", "tempMean", "apparentTempMax",
      "apparentTempMin", "apparentTempMean">>

RECURSIVE CsvLine(_, _)
CsvLine(row, j) ==
    IF j = Len(CsvColumns) THEN Raw(row[CsvColumns[j]])
    ELSE Raw(row[CsvColumns[j]]) \o "," \o CsvLine(row, j + 1)

RECURSIVE CsvRows(_, _)
CsvRows(rows, i) ==
    IF i > Len(rows) THEN "" ELSE "\n" \o CsvLine(rows[i], 1) \o CsvRows(rows, i + 1)

HeaderLine ==
    "Date,Max Temp (°C),Min Temp (°C),Mean Temp (°C),Max Apparent Temp (°C),"
    \o "Min Apparent Temp (°C),Mean Apparent Temp (°C)"

NonEmptyTable(data) == data.t = "array" /\ Len(data.a) > 0

\* C26: the export of a non-empty table is the header line followed by one
\* line for each row, in the order of the table, each line the fields date,
\* tempMax, tempMin, tempMean, apparentTempMax, apparentTempMin,
\* apparentTempMean joined by commas, a number as its plain decimal and the
\* sentinel as N/A; for an empty or missing table nothing is exported.
C26_CsvOfTable ==
    call.fn = "exportToCSV" =>
        IF NonEmptyTable(call.arg)
        THEN call.ret = Str(HeaderLine \o CsvRows(call.arg.a, 1))
        ELSE call.ret = Undefined

\* a table of two rows with a sentinel, a whole number and a fraction
C26_Witness ==
    /\ call.fn = "exportToCSV"
    /\ call.arg = Arr(transformDataForTable(PayloadGaps))
    /\ call.ret = Str(HeaderLine
                      \o "\n2023-01-01,5.2,-2.1,1.5,N/A,-4.2,-0.2"
                      \o "\n2023-01-02,N/A,N/A,0,N/A,-1.8,N/A")

-----------------------------------------------------------------------------
(* Claims about the two copies of the transformer (SpecCalls) *)

TableFns == {"transformDataForTable", "weatherApi.transformDataForTable"}

\* C27: in the table of either copy of transformDataForTable, a field of
\* row i is "N/A" exactly when its series is absent, has fewer than i
\* entries, or holds null or undefined at that position; otherwise it is the
\* element of the series, so that 0 stays 0.
C27_SentinelIffMissing ==
    (call.fn \in TableFns /\ HasDailyField(call.arg)
        /\ IsArray(call.arg.daily.time)) =>
        /\ Len(call.ret) = Len(call.arg.daily.time.a)
        /\ \A i \in 1..Len(call.ret) : \A f \in TableFields :
              LET series == call.arg.daily[f[2]]
                  missing == \/ Absent(series)
                             \/ Len(series.a) < i
                             \/ Absent(series.a[i])
              IN  IF missing THEN call.ret[i][f[1]] = Str("N/A")
                  ELSE /\ call.ret[i][f[1]] = series.a[i]
                       /\ call.ret[i][f[1]] # Str("N/A")

\* a row that holds the number 0 next to sentinels for null elements
C27_Witness ==
    /\ call.fn = "transformDataForTable"
    /\ call.arg = PayloadGaps
    /\ call.ret[2].tempMean = Num(0)
    /\ call.ret[2].tempMax = Str("N/A")
    /\ call.ret[2].apparentTempMin = Temp(-18)

\* C29: each transformer of weatherApi.js returns, for every raw response,
\* what its namesake of backendApi.js returns, and the other way round.
C29_CopiesAgree ==
    /\ call.fn = "weatherApi.transformDataForChart"
          => call.ret = transformDataForChart(call.arg)
    /\ call.fn = "weatherApi.transformDataForTable"
          => call.ret = transformDataForTable(call.arg)
    /\ call.fn = "transformDataForChart"
          => call.ret = weatherApi_transformDataForChart(call.arg)
    /\ call.fn = "transformDataForTable"
          => call.ret = weatherApi_transformDataForTable(call.arg)

\* the copy of weatherApi.js on a response with absent fields and no dates
C29_Witness ==
    /\ call.fn = "weatherApi.transformDataForChart"
    /\ call.arg = PayloadNoTime
    /\ call.ret = transformDataForChart(PayloadNoTime)
    /\ call.ret.labels = Arr(<<>>)
    /\ Len(call.ret.datasets) = 3

-----------------------------------------------------------------------------
(* Claims about the pages of the table (SpecTable) *)

\* C28: while the table shows rows, currentPage lies between 1 and
\* totalPages = ceil(rows / itemsPerPage), after page changes, after changes
\* of the page size and after the rows have been replaced by another
\* submission.
C28_PageInRange ==
    PaginationShown =>
        /\ totalPages = (Len(tableData) + table.itemsPerPage - 1) \div table.itemsPerPage
        /\ 1 <= table.currentPage
        /\ table.currentPage <= totalPages

\* the table showed the last of the four pages of 31 rows; another
\* submission has replaced them by two rows, and the page is 1
C28_Witness ==
    /\ PaginationShown
    /\ Len(subs) = 2
    /\ subs[1].outcome = "loaded" /\ subs[2].outcome = "loaded"
    /\ table.left = 4
    /\ Len(tableData) = 2
    /\ table.currentPage = 1
    /\ totalPages = 1

====
